---- MODULE Spec2Model ----
(***************************************************************************)
(* The MakiNet agent: the Task execution engine (process lifecycle, stop    *)
(* ladder, timeout monitor), the TaskManager (registry by slug), the       *)
(* loggers, and the layered images.                                        *)
(*                                                                         *)
(* Time is discrete.  One step of the clock is TimeStep seconds; every     *)
(* timed wait of the code (asyncio.sleep, Popen.wait(timeout)) ends at the *)
(* first clock step at which its duration has elapsed.                     *)
(***************************************************************************)
EXTENDS Integers, Sequences, FiniteSets, TLC

\* Python's Optional: None is the empty tuple, a present value x is <<x>>
None == <<>>
Some(x) == <<x>>
Val(o) == o[1]

\* ------------------------------------------------------------------------
\* Bounds of the model
\* ------------------------------------------------------------------------
\* total number of processes spawned in one behaviour
MaxProcs == 2
\* total number of stop() calls in one behaviour
MaxStops == 1

\* ------------------------------------------------------------------------
\* Program constants
\* ------------------------------------------------------------------------
\* asyncio.sleep(10): one grace window of the stop ladder, in seconds
Grace == 10
\* seconds per clock step
TimeStep == Grace

SIGINT == "SIGINT"
SIGTERM == "SIGTERM"
SIGKILL == "SIGKILL"

\* ------------------------------------------------------------------------
\* The Task objects of a behaviour (fields fixed at construction)
\* ------------------------------------------------------------------------
Tasks == {"t1", "t2", "t3"}

slug == [t \in Tasks |-> IF t = "t3" THEN "b" ELSE "a"]

Slugs == {slug[t] : t \in Tasks}

timeout == [t \in Tasks |-> IF t = "t2" THEN Some(Grace) ELSE None]

stop_command == [t \in Tasks |-> IF t = "t3" THEN Some("q") ELSE None]

\* number of attached loggers of a Task
NumLoggers == [t \in Tasks |-> IF t = "t3" THEN 2 ELSE 1]

\* commands a caller passes to run_command
Commands == {"c"}

VARIABLES
    process,    \* Task._process: None or the index of a spawned process
    logging,    \* logging[t][i]: the capture flag of the i-th logger of t
    procs,      \* the processes spawned so far, and each one's monitor
    stops,      \* stops[t]: the stop() call on Task t, a coroutine
    tasks,      \* TaskManager.tasks
    memory,     \* a MemoryLogger that is driven by direct calls of log
    file,       \* a FileLogger that is driven by direct calls, and its file
    image,      \* an Image, built layer by layer
    directory,  \* the file system extract_to_directory works on
    archive,    \* the archive file pack wrote, None before
    loaded,     \* the outcome of the last unpack, load_metadata or
                \* without_content call, None before
    store,      \* the files of DEFAULT_IMAGE_FILE_DIR, by name
    pulls,      \* the Image.pull calls made so far, coroutines
    calls,      \* the add_task calls that run on handler threads
    capture     \* a Task with one Logger: its process, the pipes, the
                \* monitor and the capture workers of the Logger

\* the state of the Task engine
taskvars == <<process, logging, procs, stops, tasks>>
\* the state of the objects the Task engine does not touch
nontask ==
    <<memory, file, image, directory, archive, loaded, store, pulls, calls,
      capture>>

vars == <<taskvars, nontask>>

Procs == 1..Len(procs)

\* ------------------------------------------------------------------------
\* Python facts the code relies on
\* ------------------------------------------------------------------------
\* base classes of the exceptions involved (class |-> its proper ancestors)
ExceptionBases ==
    [TimeoutExpired |-> {"SubprocessError", "Exception"},
     TimeoutError |-> {"OSError", "Exception"},
     RuntimeError |-> {"Exception"},
     ValueError |-> {"Exception"},
     ValidationError |-> {"ValueError", "Exception"},
     KeyError |-> {"LookupError", "Exception"},
     BadZipFile |-> {"Exception"},
     FileNotFoundError |-> {"OSError", "Exception"},
     NotADirectoryError |-> {"OSError", "Exception"}]

\* does `except handler:` catch an exception of class exc
Catches(handler, exc) == exc = handler \/ handler \in ExceptionBases[exc]

\* subprocess.Popen(..., stdin=arg): the stdin attribute of the new object is
\* a stream only when PIPE was requested
PIPE == Some("PIPE")

PopenStream(arg) == IF arg = PIPE THEN Some(<<>>) ELSE None

\* ------------------------------------------------------------------------
\* Task.status
\* ------------------------------------------------------------------------
poll(p) == IF procs[p].alive THEN None ELSE procs[p].cause

status(t) ==
    IF process[t] = None THEN "ready"
    ELSE IF poll(Val(process[t])) = None THEN "running"
    ELSE "stopped"

\* ------------------------------------------------------------------------
\* Logger.start_log / Logger.stop_log on every logger of a Task
\* ------------------------------------------------------------------------
AllLogging(t, flag) == [i \in 1..NumLoggers[t] |-> flag]

\* pc: where the coroutine is; err: the exception it raised, if any;
\* elapsed: seconds since it was called; due: when its current sleep ends;
\* sent: the signals it has handed to send_signal
IdleStop ==
    [pc |-> "idle", err |-> None, elapsed |-> 0, due |-> 0, sent |-> <<>>]

\* MemoryLogger(maximum_logs=n): logs is empty (default_factory=list);
\* logged keeps the messages of the log calls made on it, raised the error
\* a call ended with
MemoryLogger(n) ==
    [maximum_logs |-> n, logs |-> <<>>, logged |-> <<>>, raised |-> None]

\* the Task engine before any call
TaskInit ==
    /\ process = [t \in Tasks |-> None]
    /\ logging = [t \in Tasks |-> AllLogging(t, FALSE)]
    /\ procs = <<>>
    /\ stops = [t \in Tasks |-> IdleStop]
    /\ tasks = <<>>

\* the objects outside the Task engine, untouched
\* FileLogger(log_file=..., log_prefix=prefix) and the file at log_file:
\* log_file is None while the file does not exist, else its text;
\* logs counts the log calls; got is what the last get_logs() yielded, None
\* when there was no get_logs() since the last log call
FileLogger(prefix, text) ==
    [log_prefix |-> prefix, log_file |-> text, logs |-> 0, got |-> None]

\* Image(slug=..., version=..., layers=[])
Image(s, version) == [slug |-> s, version |-> version, layers |-> <<>>]

\* a file system node: nothing, a directory, or a regular file and its bytes
Absent == <<>>
Dir == <<"d">>
File(bytes) == <<"f", bytes>>

\* a Task that was not run yet, with one Logger of the given kind and the
\* streams of its process: the flag and the entries of the Logger, the
\* process, whether a descendant of it inherits the pipes, the lines in each
\* pipe, the monitor, and the capture worker of each stream
Capture(logger_name, n, inherited) ==
    [logger_name |-> logger_name, maximum_logs |-> n, logging |-> FALSE,
     logs |-> <<>>, stopped |-> FALSE,
     process |-> "ready", inherited |-> inherited, written |-> 0,
     pipe |-> [stream \in {"stdout", "stderr"} |-> <<>>],
     sidecar |-> "ready",
     worker |-> [stream \in {"stdout", "stderr"} |->
                    [pc |-> "ready", line |-> <<>>, after |-> 0,
                     raised |-> None]]]

\* the value each variable of the other subsystems has before they are used
Idle ==
    [memory |-> MemoryLogger(1000), file |-> FileLogger("", None),
     image |-> Image("", ""), directory |-> <<>>,
     archive |-> None, loaded |-> None,
     store |-> <<>>, pulls |-> <<>>, calls |-> <<>>,
     capture |-> Capture("memory", 1000, FALSE)]

NonTaskInit ==
    /\ memory = Idle.memory
    /\ file = Idle.file
    /\ image = Idle.image
    /\ directory = Idle.directory
    /\ archive = Idle.archive
    /\ loaded = Idle.loaded
    /\ store = Idle.store
    /\ pulls = Idle.pulls
    /\ calls = Idle.calls
    /\ capture = Idle.capture

Init ==
    /\ TaskInit
    /\ NonTaskInit

\* ------------------------------------------------------------------------
\* The child process and subprocess.Popen
\* ------------------------------------------------------------------------
\* the Popen call of Task._run: stdout and stderr are pipes, stdin is not
\* passed; the sidecar thread of Task.run starts waiting on the new process
NewProc(t) ==
    [task |-> t, alive |-> TRUE, received |-> {}, cause |-> None,
     stdin |-> PopenStream(None),
     stdout |-> PopenStream(PIPE), stderr |-> PopenStream(PIPE),
     exit_lag |-> 0, mon |-> "waiting", waited |-> 0, overdue |-> 0]

\* Popen.send_signal: nothing is sent to a process that has exited;
\* SIGKILL cannot be ignored and ends the process
Signalled(pr, sig) ==
    IF ~pr.alive THEN pr
    ELSE IF sig = SIGKILL
         THEN [pr EXCEPT !.received = @ \cup {sig}, !.alive = FALSE,
                         !.cause = Some(SIGKILL)]
         ELSE [pr EXCEPT !.received = @ \cup {sig}]

\* stdin.write(command)
Written(pr, text) == [pr EXCEPT !.stdin = Some(Val(@) \o text)]

\* time from the soft stop of p (the SIGINT of its Task's stop()) to now
SinceSoftStop(p) ==
    IF SIGINT \in procs[p].received THEN stops[procs[p].task].elapsed ELSE 0

\* the program ends, by itself or on a signal it has received and does not
\* ignore; a program that ignores the signals and keeps running is one for
\* which this step does not happen
ProcExit(p) ==
    /\ procs[p].alive
    /\ procs' = [procs EXCEPT ![p].alive = FALSE, ![p].cause = Some("exit"),
                              ![p].exit_lag = SinceSoftStop(p)]
    /\ UNCHANGED <<process, logging, stops, tasks>>

\* ------------------------------------------------------------------------
\* Task._run and Task.run
\* ------------------------------------------------------------------------
\* Task._run: spawn, store the handle in _process
_run(t) ==
    /\ procs' = Append(procs, NewProc(t))
    /\ process' = [process EXCEPT ![t] = Some(Len(procs) + 1)]

\* Task.run: _run, start_log of every logger on stdout and on stderr, start
\* the sidecar thread (part of NewProc); returns stdin
run(t) ==
    /\ _run(t)
    /\ logging' = [logging EXCEPT ![t] =
                      IF NewProc(t).stdout # None \/ NewProc(t).stderr # None
                      THEN AllLogging(t, TRUE) ELSE @]

\* what run() returns
run_result(t) == NewProc(t).stdin

\* ------------------------------------------------------------------------
\* Task.run_command
\* ------------------------------------------------------------------------
\* variant: the two checks report each other's error
run_command_error_Swapped(t) ==
    IF process[t] = None THEN Some("Runner stdin is not available")
    ELSE IF procs[Val(process[t])].stdin = None
         THEN Some("Runner is not running")
    ELSE None

run_command_error(t) ==
    IF process[t] = None THEN Some("Runner is not running")
    ELSE IF procs[Val(process[t])].stdin = None
         THEN Some("Runner stdin is not available")
    ELSE None

run_command_text(command, append_newline) ==
    IF append_newline THEN <<command, "\r\n">> ELSE <<command>>

\* a caller invokes run_command: it raises run_command_error and changes
\* nothing, or it writes
RunCommand(t) ==
    \E command \in Commands, append_newline \in BOOLEAN :
        IF run_command_error(t) # None
        THEN UNCHANGED vars
        ELSE /\ procs' = [procs EXCEPT ![Val(process[t])] =
                   Written(@, run_command_text(command, append_newline))]
             /\ UNCHANGED <<process, logging, stops, tasks>>

\* ------------------------------------------------------------------------
\* Task._stop / Task._terminate / Task._kill
\* ------------------------------------------------------------------------
\* the three rungs share one shape: if a process was spawned, send the signal
\* and stop every logger
SendRung(t, sig) ==
    IF process[t] # None
    THEN /\ procs' = [procs EXCEPT ![Val(process[t])] = Signalled(@, sig)]
         /\ logging' = [logging EXCEPT ![t] = AllLogging(t, FALSE)]
    ELSE UNCHANGED <<procs, logging>>

\* the signals a rung hands to send_signal, with the time since stop() began
RungSent(st, t, sig) ==
    IF process[t] # None
    THEN Append(st.sent, [sig |-> sig, at |-> st.elapsed,
                          to |-> Val(process[t])])
    ELSE st.sent

_stop(t) == SendRung(t, SIGINT)

_terminate(t) == SendRung(t, SIGTERM)

_kill(t) == SendRung(t, SIGKILL)

\* ------------------------------------------------------------------------
\* Task.stop, a coroutine: one action per stretch between two awaits
\* ------------------------------------------------------------------------
\* variant: the rungs after the first do not poll the process
StillRunning_NoPoll(t) == process[t] # None

StillRunning(t) == process[t] # None /\ poll(Val(process[t])) = None

\* number of stop() calls so far
NumStops == Cardinality({t \in Tasks : stops[t].pc # "idle"})

\* the error of the first rung: with a stop_command it is run_command's
stop_error(t) ==
    IF stop_command[t] # None THEN run_command_error(t) ELSE None

\* first rung, up to the first `await asyncio.sleep(10)`
StopBegin(t) ==
    /\ NumStops < MaxStops
    /\ stops[t].pc = "idle"
    /\ IF stop_command[t] # None
       THEN IF run_command_error(t) # None
            THEN /\ stops' = [stops EXCEPT ![t].pc = "raised",
                                 ![t].err = stop_error(t)]
                 /\ UNCHANGED <<procs, logging>>
            ELSE /\ procs' = [procs EXCEPT ![Val(process[t])] =
                        Written(@, run_command_text(Val(stop_command[t]),
                                                    TRUE))]
                 /\ stops' = [stops EXCEPT ![t].pc = "sleep1",
                                 ![t].due = Grace]
                 /\ UNCHANGED logging
       ELSE /\ _stop(t)
            /\ stops' = [stops EXCEPT ![t].pc = "sleep1", ![t].due = Grace,
                            ![t].sent = RungSent(stops[t], t, SIGINT)]
    /\ UNCHANGED <<process, tasks>>

\* after the first sleep: second rung and second sleep if the process is still
\* running, else both checks fail and stop() returns
StopWake1(t) ==
    /\ stops[t].pc = "sleep1"
    /\ stops[t].elapsed >= stops[t].due
    /\ IF StillRunning(t)
       THEN /\ _terminate(t)
            /\ stops' = [stops EXCEPT ![t].pc = "sleep2",
                            ![t].due = stops[t].elapsed + Grace,
                            ![t].sent = RungSent(stops[t], t, SIGTERM)]
       ELSE /\ stops' = [stops EXCEPT ![t].pc = "returned"]
            /\ UNCHANGED <<procs, logging>>
    /\ UNCHANGED <<process, tasks>>

\* variant: the third rung does not wait for the second grace window
StopWake2_NoWait(t) ==
    /\ stops[t].pc = "sleep2"
    /\ IF StillRunning(t)
       THEN /\ _kill(t)
            /\ stops' = [stops EXCEPT ![t].pc = "returned",
                            ![t].sent = RungSent(stops[t], t, SIGKILL)]
       ELSE /\ stops' = [stops EXCEPT ![t].pc = "returned"]
            /\ UNCHANGED <<procs, logging>>
    /\ UNCHANGED <<process, tasks>>

\* after the second sleep: third rung if the process is still running
StopWake2(t) ==
    /\ stops[t].pc = "sleep2"
    /\ stops[t].elapsed >= stops[t].due
    /\ IF StillRunning(t)
       THEN /\ _kill(t)
            /\ stops' = [stops EXCEPT ![t].pc = "returned",
                            ![t].sent = RungSent(stops[t], t, SIGKILL)]
       ELSE /\ stops' = [stops EXCEPT ![t].pc = "returned"]
            /\ UNCHANGED <<procs, logging>>
    /\ UNCHANGED <<process, tasks>>

\* ------------------------------------------------------------------------
\* The sidecar thread of Task.run
\* ------------------------------------------------------------------------
\* Popen.wait(timeout) raises subprocess.TimeoutExpired
WaitRaises == "TimeoutExpired"

\* the sidecar is a plain thread: no event loop runs in it, which
\* asyncio.create_task needs
SidecarHasRunningLoop == FALSE

\* does the sidecar get to start stop() when the wait times out
SidecarStartsStop ==
    Catches("TimeoutError", WaitRaises) /\ SidecarHasRunningLoop

\* wait() returns because the process has exited; finally: stop the loggers
SidecarExit(p) ==
    /\ procs[p].mon = "waiting"
    /\ ~procs[p].alive
    /\ procs' = [procs EXCEPT ![p].mon = "finished"]
    /\ logging' = [logging EXCEPT ![procs[p].task] =
                      AllLogging(procs[p].task, FALSE)]
    /\ UNCHANGED <<process, stops, tasks>>

\* wait() times out with the process still running.  The exception is not
\* one that `except TimeoutError` handles (and create_task could not run in
\* this thread), so stop() is not started: only the finally block runs, which
\* stops the loggers, and the thread ends with the exception.
SidecarTimeout(p) ==
    /\ procs[p].mon = "waiting"
    /\ procs[p].alive
    /\ timeout[procs[p].task] # None
    /\ procs[p].waited >= Val(timeout[procs[p].task])
    /\ ~SidecarStartsStop
    /\ procs' = [procs EXCEPT ![p].mon = "timedout"]
    /\ logging' = [logging EXCEPT ![procs[p].task] =
                      AllLogging(procs[p].task, FALSE)]
    /\ UNCHANGED <<process, stops, tasks>>

\* ------------------------------------------------------------------------
\* Passage of time
\* ------------------------------------------------------------------------
Sleeping(st) == st.pc \in {"sleep1", "sleep2"}

\* a wait whose duration has elapsed ends before the clock moves on
StopDue(t) == Sleeping(stops[t]) /\ stops[t].elapsed >= stops[t].due

TimeoutDue(p) ==
    /\ procs[p].mon = "waiting"
    /\ procs[p].alive
    /\ timeout[procs[p].task] # None
    /\ procs[p].waited >= Val(timeout[procs[p].task])

\* the monitor of p is counting towards its timeout
Counting(pr) == pr.mon = "waiting" /\ pr.alive /\ timeout[pr.task] # None

\* p outlived its timeout; the time since is counted up to just past the two
\* grace windows
Overdue(pr) == pr.mon = "timedout" /\ pr.alive /\ pr.overdue <= 2 * Grace

Tick ==
    /\ \A t \in Tasks : ~StopDue(t)
    /\ \A p \in Procs : ~TimeoutDue(p)
    /\ \/ \E t \in Tasks : Sleeping(stops[t])
       \/ \E p \in Procs : Counting(procs[p]) \/ Overdue(procs[p])
    /\ stops' = [t \in Tasks |->
                    IF Sleeping(stops[t])
                    THEN [stops[t] EXCEPT !.elapsed = @ + TimeStep]
                    ELSE stops[t]]
    /\ procs' = [p \in Procs |->
                    [procs[p] EXCEPT
                        !.waited = IF Counting(procs[p])
                                   THEN @ + TimeStep ELSE @,
                        !.overdue = IF Overdue(procs[p])
                                    THEN @ + TimeStep ELSE @]]
    /\ UNCHANGED <<process, logging, tasks>>

\* ------------------------------------------------------------------------
\* TaskManager
\* ------------------------------------------------------------------------
RECURSIVE first_with_slug(_, _)
first_with_slug(list, s) ==
    IF list = <<>> THEN None
    ELSE IF slug[Head(list)] = s THEN Some(Head(list))
    ELSE first_with_slug(Tail(list), s)

\* TaskManager.get_task: the first registered task with this slug, or None
get_task(s) == first_with_slug(tasks, s)

\* list.remove: drop the first occurrence of x
RECURSIVE remove(_, _)
remove(list, x) ==
    IF list = <<>> THEN <<>>
    ELSE IF Head(list) = x THEN Tail(list)
    ELSE <<Head(list)>> \o remove(Tail(list), x)

\* variant: the task with the same slug is not removed
Registered_NoRemove(t) == Append(tasks, t)

\* the registry after the lookup, removal and append of add_task
Registered(t) ==
    IF get_task(slug[t]) # None
    THEN Append(remove(tasks, Val(get_task(slug[t]))), t)
    ELSE Append(tasks, t)

\* variant: the task that is replaced gets the first rung of the stop ladder
AddTask_StopsOld(t) ==
    /\ Len(procs) < MaxProcs
    /\ procs' = Append(IF get_task(slug[t]) # None
                       THEN [procs EXCEPT
                                ![Val(process[Val(get_task(slug[t]))])] =
                                   Signalled(@, SIGINT)]
                       ELSE procs,
                       NewProc(t))
    /\ process' = [process EXCEPT ![t] = Some(Len(procs) + 1)]
    /\ logging' = [[u \in Tasks |->
                       IF get_task(slug[t]) = Some(u)
                       THEN AllLogging(u, FALSE) ELSE logging[u]]
                   EXCEPT ![t] = AllLogging(t, TRUE)]
    /\ tasks' = Registered(t)
    /\ UNCHANGED stops

\* TaskManager.add_task, the one caller of Task.run: task.run() first, then
\* replace or append
AddTask(t) ==
    /\ Len(procs) < MaxProcs
    /\ run(t)
    /\ tasks' = Registered(t)
    /\ UNCHANGED stops

\* ------------------------------------------------------------------------
\* Specification
\* ------------------------------------------------------------------------
Next ==
    \/ \E t \in Tasks : AddTask(t) /\ UNCHANGED nontask
    \/ \E t \in Tasks : RunCommand(t) /\ UNCHANGED nontask
    \/ \E t \in Tasks : StopBegin(t) /\ UNCHANGED nontask
    \/ \E t \in Tasks : StopWake1(t) /\ UNCHANGED nontask
    \/ \E t \in Tasks : StopWake2(t) /\ UNCHANGED nontask
    \/ \E p \in Procs : ProcExit(p) /\ UNCHANGED nontask
    \/ \E p \in Procs : SidecarExit(p) /\ UNCHANGED nontask
    \/ \E p \in Procs : SidecarTimeout(p) /\ UNCHANGED nontask
    \/ Tick /\ UNCHANGED nontask

Spec == Init /\ [][Next]_vars

TypeOK ==
    /\ \A t \in Tasks : process[t] = None \/ Val(process[t]) \in Procs
    /\ \A p \in Procs : procs[p].task \in Tasks

\* ========================================================================
\* Properties
\* ========================================================================
Rank(st) == CASE st = "ready" -> 0 [] st = "running" -> 1 [] st = "stopped" -> 2

\* C1: under every operation the status of a Task only moves
\* ready -> running -> stopped: it never goes back to ready, and once it is
\* stopped it never becomes running or ready again.
C1_StatusMonotonic ==
    [][\A t \in Tasks : Rank(status(t)') >= Rank(status(t))]_vars

\* stop() of t, a Task without stop_command, began while the process its
\* handle still names was running, and that process has ended neither by
\* itself nor on SIGINT or SIGTERM
IgnoresLadder(t) ==
    /\ stop_command[t] = None
    /\ process[t] # None
    /\ SIGINT \in procs[Val(process[t])].received
    /\ procs[Val(process[t])].cause \in {None, Some(SIGKILL)}

\* in every stop(), SIGKILL directly follows a SIGTERM sent at least one
\* grace window earlier
KillAfterTerminate(st) ==
    \A i \in 1..Len(st.sent) :
        st.sent[i].sig = SIGKILL =>
            /\ i > 1
            /\ st.sent[i - 1].sig = SIGTERM
            /\ st.sent[i].at >= st.sent[i - 1].at + Grace

\* C2: for a running Task with no stop_command whose process ignores SIGINT
\* and SIGTERM, stop() sends SIGINT at once, SIGTERM only after a full grace
\* window with the process still alive, SIGKILL only after a second full
\* window with the process still alive; it returns only after both windows,
\* with the process killed; no stop() sends SIGKILL without SIGTERM before it.
C2_StopLadder ==
    \A t \in Tasks :
        /\ KillAfterTerminate(stops[t])
        /\ IgnoresLadder(t) =>
              LET st == stops[t]
                  p == Val(process[t])
              IN /\ st.pc \in {"sleep1", "sleep2", "returned"}
                 /\ Len(st.sent) >= 1
                 /\ st.sent[1] = [sig |-> SIGINT, at |-> 0, to |-> p]
                 /\ st.pc = "sleep1" => Len(st.sent) = 1 /\ procs[p].alive
                 /\ st.pc = "sleep2" =>
                       /\ Len(st.sent) = 2
                       /\ st.sent[2].sig = SIGTERM
                       /\ st.sent[2].to = p
                       /\ st.sent[2].at >= Grace
                       /\ procs[p].alive
                 /\ st.pc = "returned" =>
                       /\ Len(st.sent) = 3
                       /\ st.sent[2].sig = SIGTERM
                       /\ st.sent[2].at >= Grace
                       /\ st.sent[3] = [sig |-> SIGKILL, at |-> st.elapsed,
                                        to |-> p]
                       /\ st.elapsed >= 2 * Grace
                       /\ procs[p].cause = Some(SIGKILL)

C2_Witness ==
    \E t \in Tasks :
        /\ IgnoresLadder(t)
        /\ stops[t].pc = "returned"
        /\ procs[Val(process[t])].cause = Some(SIGKILL)
        /\ stops[t].elapsed >= 2 * Grace

Sigs(st) == {st.sent[i].sig : i \in 1..Len(st.sent)}

\* stop() of t, a Task without stop_command, sent SIGINT to the process its
\* handle still names, and that process exited on it in the same clock
\* instant
ExitedOnSoftStop(t) ==
    /\ stop_command[t] = None
    /\ process[t] # None
    /\ SIGINT \in procs[Val(process[t])].received
    /\ procs[Val(process[t])].cause = Some("exit")
    /\ procs[Val(process[t])].exit_lag = 0

C4_FirstRung ==
    [][\A t \in Tasks :
          (status(t) = "running" /\ StopBegin(t)) =>
              /\ stops'[t].pc = "sleep1"
              /\ logging'[t] = AllLogging(t, FALSE)
              /\ IF stop_command[t] # None
                 THEN /\ procs[Val(process[t])].stdin # None
                      /\ procs'[Val(process[t])].stdin # None
                      /\ Val(procs'[Val(process[t])].stdin) =
                            Val(procs[Val(process[t])].stdin)
                               \o <<Val(stop_command[t]), "\r\n">>
                      /\ SIGINT \notin procs'[Val(process[t])].received
                 ELSE SIGINT \in procs'[Val(process[t])].received]_vars

\* C5: on the timeout path the monitor starts stop() and runs its final stop
\* of the loggers only when that stop() has completed.
C5_MonitorRunsLadder ==
    \A p \in Procs :
        procs[p].mon = "timedout" => stops[procs[p].task].pc = "returned"

\* C6: a process that outlives the timeout of its Task has exited at the
\* latest two grace windows after the timeout expired.
C6_StoppedAfterTimeout ==
    \A p \in Procs :
        (procs[p].mon = "timedout" /\ procs[p].overdue > 2 * Grace) =>
            ~procs[p].alive

\* C7: after run() the handle run() returned is a usable stdin stream, and
\* run_command on the running Task raises nothing and writes the command
\* (with "\r\n" when append_newline is true) to it.
C7_RunCommandWrites ==
    /\ [](\A t \in Tasks :
             /\ process[t] # None => procs[Val(process[t])].stdin # None
             /\ status(t) = "running" => run_command_error(t) = None)
    /\ [][\A t \in Tasks :
             (status(t) = "running" /\ RunCommand(t)) =>
                 /\ procs[Val(process[t])].stdin # None
                 /\ \E command \in Commands, append_newline \in BOOLEAN :
                       procs'[Val(process[t])].stdin =
                          Some(Val(procs[Val(process[t])].stdin) \o
                               run_command_text(command, append_newline))]_vars

NotRunning == Some("Runner is not running")

UniqueBySlug(list) ==
    \A i, j \in 1..Len(list) : slug[list[i]] = slug[list[j]] => i = j

\* C9: under sequential add_task calls the registry holds at most one entry
\* per slug; after add_task(t) get_task(slug of t) is t and the entries of
\* the other slugs are as before, so the entry of a slug is the Task added
\* last with it; the registry grows by one for a new slug and keeps its size
\* for a registered one; nothing but add_task changes the registry.
C9_Registry ==
    [][/\ UniqueBySlug(tasks')
       /\ \A t \in Tasks :
             AddTask(t) =>
                 /\ first_with_slug(tasks', slug[t]) = Some(t)
                 /\ \A s \in Slugs \ {slug[t]} :
                       first_with_slug(tasks', s) = get_task(s)
                 /\ Len(tasks') = IF get_task(slug[t]) # None
                                  THEN Len(tasks) ELSE Len(tasks) + 1
       /\ tasks' # tasks => \E t \in Tasks : AddTask(t)]_vars

\* a Task o that add_task started and registered and that a later add_task
\* of another Task with the same slug replaced
Replaced(o, t) ==
    /\ o # t
    /\ slug[o] = slug[t]
    /\ process[o] # None
    /\ process[t] # None
    /\ Val(process[o]) < Val(process[t])

C9_Witness ==
    \E o, t \in Tasks :
        /\ Replaced(o, t)
        /\ get_task(slug[t]) = Some(t)
        /\ tasks = <<t>>

\* C10: an add_task that replaces a registered Task with the same slug leaves
\* the replaced Task's process as it was (no signal), leaves its loggers as
\* they were, and the replaced Task, if it was running, is still running,
\* while the registry no longer holds it.
C10_ReplacedUntouched ==
    [][\A t, o \in Tasks :
          (AddTask(t) /\ get_task(slug[t]) = Some(o)) =>
              /\ procs'[Val(process[o])] = procs[Val(process[o])]
              /\ o # t =>
                    /\ process'[o] = process[o]
                    /\ logging'[o] = logging[o]
                    /\ status(o) = "running" => status(o)' = "running"
                    /\ \A i \in 1..Len(tasks') : tasks'[i] # o]_vars

C10_Witness ==
    \E o, t \in Tasks :
        /\ Replaced(o, t)
        /\ status(o) = "running"
        /\ procs[Val(process[o])].received = {}
        /\ logging[o] = AllLogging(o, TRUE)
        /\ get_task(slug[o]) = Some(t)

\* ========================================================================
\* MemoryLogger driven by sequential log calls
\* ========================================================================
\* largest maximum_logs of a logger under test
MaxMaximumLogs == 2
\* number of log calls in one behaviour
MaxLogCalls == 4

\* MemoryLogger.log without the eviction
MemoryLogger_log_NoEvict(ml, message) ==
    [ml EXCEPT !.logs = Append(@, message), !.logged = Append(@, message)]

\* MemoryLogger.log: at capacity pop(0) removes the oldest entry (IndexError
\* when there is none to pop), then the message is appended
MemoryLogger_log(ml, message) ==
    IF Len(ml.logs) >= ml.maximum_logs
    THEN IF ml.logs = <<>>
         THEN [ml EXCEPT !.raised = Some("IndexError"),
                         !.logged = Append(@, message)]
         ELSE [ml EXCEPT !.logs = Append(Tail(@), message),
                         !.logged = Append(@, message)]
    ELSE [ml EXCEPT !.logs = Append(@, message),
                    !.logged = Append(@, message)]

\* MemoryLogger.get_logs, consumed at once
MemoryLogger_get_logs(ml) == ml.logs

MemoryInit ==
    /\ TaskInit
    /\ memory \in {MemoryLogger(n) : n \in 0..MaxMaximumLogs}
    /\ file = Idle.file
    /\ image = Idle.image
    /\ directory = Idle.directory
    /\ archive = Idle.archive
    /\ loaded = Idle.loaded
    /\ store = Idle.store
    /\ pulls = Idle.pulls
    /\ calls = Idle.calls
    /\ capture = Idle.capture

MemoryLog ==
    /\ Len(memory.logged) < MaxLogCalls
    /\ \E message \in {"x", "y", "z"} :
          memory' = MemoryLogger_log(memory, message)
    /\ UNCHANGED <<taskvars, file, image, directory, archive, loaded, store,
                   pulls, calls, capture>>

MemoryNext == MemoryLog

MemorySpec == MemoryInit /\ [][MemoryNext]_vars

Min(a, b) == IF a <= b THEN a ELSE b

\* the last n elements of list
LastN(list, n) == SubSeq(list, Len(list) - n + 1, Len(list))

\* C11: a MemoryLogger that started empty with maximum_logs = M >= 1 yields,
\* after any number of sequential log calls, the last M messages logged in
\* the order they were logged, and all of them while fewer than M were logged.
C11_LastMaximumLogs ==
    memory.maximum_logs >= 1 =>
        /\ memory.raised = None
        /\ MemoryLogger_get_logs(memory) =
              LastN(memory.logged,
                    Min(Len(memory.logged), memory.maximum_logs))

C11_Witness ==
    /\ memory.maximum_logs = 2
    /\ Len(memory.logged) = 4
    /\ memory.logged[3] # memory.logged[4]
    /\ MemoryLogger_get_logs(memory) = <<memory.logged[3], memory.logged[4]>>

\* ========================================================================
\* FileLogger driven by sequential log and get_logs calls
\* ========================================================================
\* number of log calls in one behaviour
MaxFileLogs == 3

\* text is a sequence of characters; NL is the line terminator
NL == "\n"

\* messages a caller logs: lines as readline() hands them to log (terminated,
\* or unterminated at the end of a stream), and text of more than one line
FileMessages ==
    {<<"m", NL>>, <<"n", NL>>, <<"m">>, <<"m", NL, "n", NL>>}

\* f"[{self.log_prefix}] {message}"
Formatted(prefix, message) == <<"[", prefix, "]", " ">> \o message

\* f.readline(): the text up to and including the first NL, all of it when
\* there is none
RECURSIVE LineEnd(_, _)
LineEnd(text, i) ==
    IF i >= Len(text) \/ text[i] = NL THEN i ELSE LineEnd(text, i + 1)

readline(text) ==
    IF text = <<>> THEN <<>> ELSE SubSeq(text, 1, LineEnd(text, 1))

\* the loop of get_logs: readline() until it returns the empty string
RECURSIVE readlines(_)
readlines(text) ==
    IF readline(text) = <<>> THEN <<>>
    ELSE <<readline(text)>> \o
         readlines(SubSeq(text, Len(readline(text)) + 1, Len(text)))

\* FileLogger.log that terminates what it writes
FileLogger_log_Terminated(fl, message) ==
    [fl EXCEPT
        !.log_file = Some((IF @ = None THEN <<>> ELSE Val(@)) \o
                          Formatted(fl.log_prefix, message) \o <<NL>>),
        !.logs = @ + 1,
        !.got = None]

\* FileLogger.log: open(log_file, "a") creates the file when it is missing and
\* appends the formatted message, with nothing added after it
FileLogger_log(fl, message) ==
    [fl EXCEPT
        !.log_file = Some((IF @ = None THEN <<>> ELSE Val(@)) \o
                          Formatted(fl.log_prefix, message)),
        !.logs = @ + 1,
        !.got = None]

\* FileLogger.get_logs, consumed at once: open(log_file, "r") raises when the
\* file is missing, else the lines of the file
FileLogger_get_logs(fl) ==
    IF fl.log_file = None
    THEN [raised |-> Some("FileNotFoundError"), lines |-> <<>>]
    ELSE [raised |-> None, lines |-> readlines(Val(fl.log_file))]

FileInit ==
    /\ TaskInit
    /\ memory = Idle.memory
    /\ image = Idle.image
    /\ directory = Idle.directory
    /\ archive = Idle.archive
    /\ loaded = Idle.loaded
    /\ store = Idle.store
    /\ pulls = Idle.pulls
    /\ calls = Idle.calls
    /\ capture = Idle.capture
    /\ file \in {FileLogger("p", text) : text \in {None, Some(<<>>)}}

FileLog ==
    /\ file.logs < MaxFileLogs
    /\ \E message \in FileMessages : file' = FileLogger_log(file, message)
    /\ UNCHANGED <<taskvars, memory, image, directory, archive, loaded, store,
                   pulls, calls, capture>>

\* get_logs opens the file for reading only
FileGetLogs ==
    /\ file' = [file EXCEPT !.got = Some(FileLogger_get_logs(file))]
    /\ UNCHANGED <<taskvars, memory, image, directory, archive, loaded, store,
                   pulls, calls, capture>>

FileNext == FileLog \/ FileGetLogs

FileSpec == FileInit /\ [][FileNext]_vars

\* message is exactly one terminated line
IsLine(message) ==
    /\ message # <<>>
    /\ message[Len(message)] = NL
    /\ \A i \in 1..(Len(message) - 1) : message[i] # NL

\* a get_logs() with no log call since the last get_logs() yields what that
\* one yielded, and get_logs() leaves the file as it is
GetLogsRepeatable ==
    /\ [](file.got # None => Val(file.got) = FileLogger_get_logs(file))
    /\ [][FileGetLogs => file'.log_file = file.log_file]_vars

MaxLayers == 2

\* paths: "a/b" lies in the directory "a"; "/x" is absolute
Paths == {"a", "a/b", "c", "/x"}

\* Path(path).is_absolute()
is_absolute(path) == path = "/x"

\* the directory a path lies in, None when that is the target directory of
\* the extraction or the root, which exist
parent(path) == IF path = "a/b" THEN Some("a") ELSE None

\* a dict is the sequence of its <<key, value>> items in insertion order
keys(dict) == {dict[i][1] : i \in 1..Len(dict)}

\* ImageLayer.validate_content: the error the validator raises, if any
validate_content(content) ==
    IF \E path \in keys(content) : is_absolute(path)
    THEN Some("ValueError") ELSE None

\* ImageLayer(checksum=..., content=..., deleted_files=...), once validated
ImageLayer(checksum, content, deleted_files) ==
    [checksum |-> checksum, content |-> content,
     deleted_files |-> deleted_files]

\* a directory tree, the error that stopped the extraction into it, and
\* whether extract_to_directory was called on it
Tree(files) == [files |-> files, raised |-> None, extracted |-> FALSE]

IsFile(node) == Len(node) = 2

\* (path / file_path).parent.mkdir(parents=True, exist_ok=True) and
\* (path / file_path).write_bytes(content)
write_bytes(tree, path, bytes) ==
    IF tree.raised # None THEN tree
    ELSE IF parent(path) # None /\ IsFile(tree.files[Val(parent(path))])
    THEN [tree EXCEPT !.raised = Some("FileExistsError")]
    ELSE IF tree.files[path] = Dir
    THEN [tree EXCEPT !.raised = Some("IsADirectoryError")]
    ELSE [tree EXCEPT
             !.files = [q \in Paths |->
                          IF q = path THEN File(bytes)
                          ELSE IF Some(q) = parent(path) THEN Dir
                          ELSE tree.files[q]]]

\* (path / deleted_file).unlink(missing_ok=True): only a missing file is
\* forgiven
unlink(tree, path) ==
    IF tree.raised # None THEN tree
    ELSE IF parent(path) # None /\ IsFile(tree.files[Val(parent(path))])
    THEN [tree EXCEPT !.raised = Some("NotADirectoryError")]
    ELSE IF tree.files[path] = Dir
    THEN [tree EXCEPT !.raised = Some("IsADirectoryError")]
    ELSE [tree EXCEPT !.files[path] = Absent]

RECURSIVE write_all(_, _)
write_all(tree, content) ==
    IF content = <<>> THEN tree
    ELSE write_all(write_bytes(tree, Head(content)[1], Head(content)[2]),
                   Tail(content))

RECURSIVE unlink_all(_, _)
unlink_all(tree, deleted_files) ==
    IF deleted_files = <<>> THEN tree
    ELSE unlink_all(unlink(tree, Head(deleted_files)), Tail(deleted_files))

\* one layer with its deletions applied before its writes
apply_layer_DeletesFirst(tree, layer) ==
    write_all(unlink_all(tree, layer.deleted_files), layer.content)

\* the body of the loop over the layers: the writes, then the deletions
apply_layer(tree, layer) ==
    unlink_all(write_all(tree, layer.content), layer.deleted_files)

RECURSIVE apply_layers(_, _)
apply_layers(tree, layers) ==
    IF layers = <<>> THEN tree
    ELSE apply_layers(apply_layer(tree, Head(layers)), Tail(layers))

\* Image.extract_to_directory on the tree files
extract_to_directory(img, files) == apply_layers(Tree(files), img.layers)

\* the directory trees an extraction starts from; the file "/x" lies outside
Outside == [q \in Paths |-> IF q = "/x" THEN File("1") ELSE Absent]

StartFiles ==
    {Outside,
     [Outside EXCEPT !["a"] = File("2"), !["c"] = File("2")],
     [Outside EXCEPT !["a"] = Dir, !["a/b"] = File("2")]}

ExtractInit ==
    /\ TaskInit
    /\ memory = Idle.memory
    /\ file = Idle.file
    /\ archive = Idle.archive
    /\ loaded = Idle.loaded
    /\ store = Idle.store
    /\ pulls = Idle.pulls
    /\ calls = Idle.calls
    /\ capture = Idle.capture
    /\ image = Image("i", "1")
    /\ directory \in {Tree(files) : files \in StartFiles}

\* ImageLayer(...) and its use as the next layer of the Image; a layer the
\* validator rejects does not come into existence
NewLayer ==
    /\ ~directory.extracted
    /\ Len(image.layers) < MaxLayers
    /\ \E content \in
             {<<>>, << <<"a", "1">>, <<"c", "2">> >>} \cup
             {<<<<path, bytes>>>> : path \in Paths, bytes \in {"1", "2"}},
          deleted_files \in {<<>>} \cup {<<path>> : path \in Paths} :
          IF validate_content(content) # None
          THEN UNCHANGED vars
          ELSE /\ image' = [image EXCEPT !.layers =
                               Append(@, ImageLayer(<<>>, content,
                                                    deleted_files))]
               /\ UNCHANGED <<taskvars, memory, file, directory, archive,
                              loaded, store, pulls, calls, capture>>

Extract ==
    /\ ~directory.extracted
    /\ directory' =
          [extract_to_directory(image, directory.files)
              EXCEPT !.extracted = TRUE]
    /\ UNCHANGED <<taskvars, memory, file, image, archive, loaded, store, pulls,
                   calls, capture>>

ExtractNext == NewLayer \/ Extract

ExtractSpec == ExtractInit /\ [][ExtractNext]_vars

\* layer writes path / deletes path / mentions path
Writes(layer, path) == path \in keys(layer.content)
Deletes(layer, path) ==
    \E i \in 1..Len(layer.deleted_files) : layer.deleted_files[i] = path
Mentions(layer, path) == Writes(layer, path) \/ Deletes(layer, path)

\* the index of the newest layer that mentions path, 0 when there is none
RECURSIVE NewestUpTo(_, _, _)
NewestUpTo(layers, path, i) ==
    IF i = 0 \/ Mentions(layers[i], path) THEN i
    ELSE NewestUpTo(layers, path, i - 1)

Newest(layers, path) == NewestUpTo(layers, path, Len(layers))

\* the bytes the layer writes to path
RECURSIVE Lookup(_, _)
Lookup(dict, key) ==
    IF Head(dict)[1] = key THEN Head(dict)[2] ELSE Lookup(Tail(dict), key)

\* the outcome the overlay rule gives path
Overlaid(layers, before, after, path) ==
    LET n == Newest(layers, path)
    IN IF n = 0 THEN IsFile(before[path]) => after[path] = before[path]
       ELSE IF Deletes(layers[n], path) THEN ~IsFile(after[path])
       ELSE after[path] = File(Lookup(layers[n].content, path))

\* C13 as claimed: for every Image, extract_to_directory applies the layers
\* oldest to newest and in a layer the writes before the deletions: after it
\* a path is absent if the newest layer that mentions it deletes it, holds
\* that layer's bytes if that layer only writes it, and a file no layer
\* mentions is unchanged.
C13_OverlayOrder ==
    [][Extract =>
          /\ directory'.raised = None
          /\ \A path \in Paths :
                Overlaid(image.layers, directory.files, directory'.files,
                         path)]_vars

\* path is used as a file, or as a directory, by the tree or by a layer
UsedAsFile(layers, files, path) ==
    \/ IsFile(files[path])
    \/ \E i \in 1..Len(layers) : Mentions(layers[i], path)

UsedAsDir(layers, files, path) ==
    \/ files[path] = Dir
    \/ \E q \in Paths :
          /\ parent(q) = Some(path)
          /\ \/ files[q] # Absent
             \/ \E i \in 1..Len(layers) : Mentions(layers[i], q)

NoConflict(layers, files) ==
    \A path \in Paths :
        ~(UsedAsFile(layers, files, path) /\ UsedAsDir(layers, files, path))

\* C13 as amended: extract_to_directory applies the layers oldest to newest
\* and in a layer the writes before the deletions, and stops with an error,
\* the rest unapplied, at the first write or deletion whose path is a
\* directory or lies under a regular file.  When it returns normally, no file
\* is left at a path whose newest mentioning layer deletes it, a path whose
\* newest mentioning layer only writes it holds that layer's bytes, and a
\* file no layer mentions is unchanged; it returns normally whenever no path
\* is used both as a file and as a directory by the layers and the target.
C13_OverlayOrderWhenExtracted ==
    [][Extract =>
          /\ NoConflict(image.layers, directory.files) =>
                directory'.raised = None
          /\ directory'.raised = None =>
                \A path \in Paths :
                    Overlaid(image.layers, directory.files,
                             directory'.files, path)]_vars

\* a layer wrote and deleted "c", an older one wrote "a" and a newer one
\* rewrote it
C13_Witness ==
    /\ directory.extracted
    /\ directory.raised = None
    /\ Len(image.layers) = 2
    /\ Writes(image.layers[1], "a") /\ Writes(image.layers[1], "c")
    /\ Writes(image.layers[2], "a") /\ Deletes(image.layers[2], "c")
    /\ directory.files["c"] = Absent
    /\ directory.files["a"] = File(Lookup(image.layers[2].content, "a"))
    /\ Lookup(image.layers[1].content, "a") #
          Lookup(image.layers[2].content, "a")

\* C14: no ImageLayer exists with an absolute path as a key of content or as
\* an entry of deleted_files, and so extract_to_directory never writes or
\* removes a file at an absolute path taken from a layer.
C14_OnlyRelativePaths ==
    /\ [](\A i \in 1..Len(image.layers) : \A path \in Paths :
             is_absolute(path) => ~Mentions(image.layers[i], path))
    /\ [][Extract =>
             \A path \in Paths :
                 is_absolute(path) =>
                    directory'.files[path] = directory.files[path]]_vars

\* ========================================================================
\* Archives: bson documents, zip files, pack, unpack and load_metadata
\* ========================================================================
\* the outcome of a call: the exception it raised, or the value it returned
Raised(exception) == [raised |-> Some(exception), value |-> <<>>]
Returned(value) == [raised |-> None, value |-> value]

\* a bson document is the sequence of its elements; the type of an element
\* follows from the Python type of the value that was dumped
Element(name, type, value) == [name |-> name, type |-> type, value |-> value]

\* bson.dumps of the items of a dict whose values have the given bson type
dumps_dict(dict, type) ==
    [i \in 1..Len(dict) |-> Element(dict[i][1], type, dict[i][2])]

\* the Python value of an element: a dict for a document (the sequence of its
\* items), a list for an array, the value itself for a string or a binary
decoded(element) ==
    CASE element.type = "document" ->
            [i \in 1..Len(element.value) |->
                <<element.value[i].name, element.value[i].value>>]
      [] element.type = "array" ->
            [i \in 1..Len(element.value) |-> element.value[i].value]
      [] OTHER -> element.value

\* the last element of the document with that name
RECURSIVE ElementNamed(_, _)
ElementNamed(document, name) ==
    IF document[Len(document)].name = name THEN document[Len(document)]
    ELSE ElementNamed(SubSeq(document, 1, Len(document) - 1), name)

\* bson.loads of a document whose keys become keyword arguments
loads(document) ==
    [name \in {document[i].name : i \in 1..Len(document)} |->
        decoded(ElementNamed(document, name))]

\* hashlib.sha256 of a text, taken to be free of collisions
sha256(text) == <<"sha256", text>>

\* ImageLayer.slug: the digest of the checksum values joined in dict order
ImageLayer_slug(layer) ==
    sha256([i \in 1..Len(layer.checksum) |-> layer.checksum[i][2]])

\* ImageLayer(**kwargs): checksum and content are required, deleted_files
\* defaults to [], validate_content runs on the content given, and keywords
\* that are no fields (the dumped slug) are ignored
ImageLayer_init(kwargs) ==
    IF ~({"checksum", "content"} \subseteq DOMAIN kwargs)
    THEN Raised("ValidationError")
    ELSE IF validate_content(kwargs.content) # None
    THEN Raised("ValidationError")
    ELSE Returned(ImageLayer(kwargs.checksum, kwargs.content,
                             IF "deleted_files" \in DOMAIN kwargs
                             THEN kwargs.deleted_files ELSE <<>>))

\* Image(**kwargs): slug, version and layers are required
Image_init(kwargs) ==
    IF ~({"slug", "version", "layers"} \subseteq DOMAIN kwargs)
    THEN Raised("ValidationError")
    ELSE Returned([slug |-> kwargs.slug, version |-> kwargs.version,
                   layers |-> kwargs.layers])

\* a zip file: its compression and its entries in the order they were
\* written; an entry holds its data compressed, and reading inflates it
ZIP_STORED == "ZIP_STORED"
ZIP_DEFLATED == "ZIP_DEFLATED"

method(compression) == IF ~compression THEN ZIP_STORED ELSE ZIP_DEFLATED

Entry(name, how, data) ==
    [name |-> name, compressed |-> [method |-> how, data |-> data]]

namelist(zip) == {zip.entries[i].name : i \in 1..Len(zip.entries)}

RECURSIVE EntryNamed(_, _)
EntryNamed(entries, name) ==
    IF entries[Len(entries)].name = name THEN entries[Len(entries)]
    ELSE EntryNamed(SubSeq(entries, 1, Len(entries) - 1), name)

\* zip_file.read(name)
read(zip, name) == EntryNamed(zip.entries, name).compressed.data

\* the names of the entries
info_bson == <<"info.bson">>
content_bson == <<"content.bson">>
layer_zip(i) == <<"layers/layer_", i, ".zip">>

\* model_dump(mode="json", exclude={"content"}) of a layer: the fields and
\* the computed field slug; the bson array of a list is a document keyed by
\* the positions
ImageLayer_info(layer) ==
    <<Element("checksum", "document", dumps_dict(layer.checksum, "string")),
      Element("deleted_files", "array",
              [i \in 1..Len(layer.deleted_files) |->
                  Element(i - 1, "string", layer.deleted_files[i])]),
      Element("slug", "string", ImageLayer_slug(layer))>>

\* ImageLayer.pack that writes an empty content.bson
ImageLayer_pack_NoContent(layer, compression) ==
    [entries |->
        <<Entry(info_bson, method(compression), ImageLayer_info(layer)),
          Entry(content_bson, method(compression), <<>>)>>]

\* ImageLayer.pack
ImageLayer_pack(layer, compression) ==
    [entries |->
        <<Entry(info_bson, method(compression), ImageLayer_info(layer)),
          Entry(content_bson, method(compression),
                dumps_dict(layer.content, "binary"))>>]

\* ImageLayer.unpack: info.bson gives the keyword arguments, content.bson the
\* dict of the content
ImageLayer_unpack(zip) ==
    ImageLayer_init(
        loads(read(zip, info_bson)) @@
        [content |->
            decoded(Element("", "document", read(zip, content_bson)))])

\* ImageLayer.load_metadata: the constructor is given the info only
ImageLayer_load_metadata(zip) == ImageLayer_init(loads(read(zip, info_bson)))

\* Image.pack: info.bson with model_dump(mode="json", exclude={"layers"}),
\* the directory layers/, then the archive of each layer under its position
Image_pack(img, compression) ==
    [entries |->
        <<Entry(info_bson, method(compression),
                <<Element("slug", "string", img.slug),
                  Element("version", "string", img.version)>>),
          Entry(<<"layers/">>, ZIP_STORED, <<>>)>> \o
        [i \in 1..Len(img.layers) |->
            Entry(layer_zip(i - 1), method(compression),
                  ImageLayer_pack(img.layers[i], compression))]]

\* the loop of Image.unpack from index i on: every index below the number of
\* entries is probed, and the layer archives found are unpacked in that order
RECURSIVE unpack_layers(_, _)
unpack_layers(zip, i) ==
    IF i >= Len(zip.entries) THEN Returned(<<>>)
    ELSE IF layer_zip(i) \notin namelist(zip) THEN unpack_layers(zip, i + 1)
    ELSE LET layer == ImageLayer_unpack(read(zip, layer_zip(i)))
             rest == unpack_layers(zip, i + 1)
         IN IF layer.raised # None THEN layer
            ELSE IF rest.raised # None THEN rest
            ELSE Returned(<<layer.value>> \o rest.value)

\* Image.unpack with a probe that starts at index 1
Image_unpack_ProbeFromOne(zip) ==
    LET layers == unpack_layers(zip, 1)
    IN IF info_bson \notin namelist(zip) THEN Raised("KeyError")
       ELSE IF layers.raised # None THEN layers
       ELSE Image_init(loads(read(zip, info_bson)) @@
                       [layers |-> layers.value])

\* Image.unpack: reading info.bson raises KeyError when there is no such
\* entry
Image_unpack(zip) ==
    LET layers == unpack_layers(zip, 0)
    IN IF info_bson \notin namelist(zip) THEN Raised("KeyError")
       ELSE IF layers.raised # None THEN layers
       ELSE Image_init(loads(read(zip, info_bson)) @@
                       [layers |-> layers.value])

\* the loop of Image.load_metadata from index i on: each layer archive found
\* is opened as the file Path(path) / name, a path that leads through the
\* regular file at path, so that zipfile.ZipFile raises
RECURSIVE load_metadata_layers(_, _)
load_metadata_layers(zip, i) ==
    IF i >= Len(zip.entries) THEN Returned(<<>>)
    ELSE IF layer_zip(i) \notin namelist(zip)
    THEN load_metadata_layers(zip, i + 1)
    ELSE LET opened == Raised("NotADirectoryError")
             layer == IF opened.raised # None THEN opened
                      ELSE ImageLayer_load_metadata(opened.value)
             rest == load_metadata_layers(zip, i + 1)
         IN IF layer.raised # None THEN layer
            ELSE IF rest.raised # None THEN rest
            ELSE Returned(<<layer.value>> \o rest.value)

\* Image.load_metadata: the constructor is given the info only
Image_load_metadata(zip) ==
    LET layers == load_metadata_layers(zip, 0)
    IN IF layers.raised # None THEN layers
       ELSE Image_init(loads(read(zip, info_bson)))

\* Image.get_file_list
get_file_list(img) ==
    LET last == img.layers[Len(img.layers)]
    IN [i \in 1..Len(last.checksum) |-> last.checksum[i][1]]

\* Image.without_content that copies the layers as they are
without_content_Copy(img) ==
    [img EXCEPT !.layers = [i \in 1..Len(@) |-> @[i]]]

\* Image.without_content: a copy whose layers are copies with content {}
without_content(img) ==
    [img EXCEPT !.layers = [i \in 1..Len(@) |-> [@[i] EXCEPT !.content = <<>>]]]

\* the layers Images are packed from
PackLayers ==
    {ImageLayer(checksum, content, deleted_files) :
        checksum \in
            {<<>>, << <<"a", "h1">> >>, << <<"a", "h1">>, <<"c", "h2">> >>,
             << <<"c", "h2">>, <<"a", "h1">> >>},
        content \in
            {<<>>, << <<"a", "1">> >>, << <<"c", "2">>, <<"a", "1">> >>},
        deleted_files \in {<<>>, <<"c", "/x">>}}

PackInit ==
    /\ TaskInit
    /\ memory = Idle.memory
    /\ file = Idle.file
    /\ directory = <<>>
    /\ archive = Idle.archive
    /\ loaded = Idle.loaded
    /\ store = Idle.store
    /\ pulls = Idle.pulls
    /\ calls = Idle.calls
    /\ capture = Idle.capture
    /\ \E n \in 0..MaxLayers : \E layers \in [1..n -> PackLayers] :
          image = [Image("i", "1") EXCEPT !.layers = layers]

\* image.pack(path, compression)
Pack ==
    /\ \E compression \in BOOLEAN :
          archive' = Some([kind |-> "image", of |-> 0,
                           zip |-> Image_pack(image, compression)])
    /\ loaded' = None
    /\ UNCHANGED <<taskvars, memory, file, image, directory, store, pulls,
                   calls, capture>>

\* image.layers[i].pack(path, compression)
PackLayer ==
    /\ \E i \in 1..Len(image.layers), compression \in BOOLEAN :
          archive' = Some([kind |-> "layer", of |-> i,
                           zip |-> ImageLayer_pack(image.layers[i],
                                                   compression)])
    /\ loaded' = None
    /\ UNCHANGED <<taskvars, memory, file, image, directory, store, pulls,
                   calls, capture>>

Called(op, outcome) ==
    Some([op |-> op, raised |-> outcome.raised, value |-> outcome.value])

\* Image.unpack(path) or ImageLayer.unpack(path) on what was packed
Unpack ==
    /\ archive # None
    /\ loaded' = Called("unpack",
                        IF Val(archive).kind = "image"
                        THEN Image_unpack(Val(archive).zip)
                        ELSE ImageLayer_unpack(Val(archive).zip))
    /\ UNCHANGED archive
    /\ UNCHANGED <<taskvars, memory, file, image, directory, store, pulls,
                   calls, capture>>

\* Image.load_metadata(path) or ImageLayer.load_metadata(path)
LoadMetadata ==
    /\ archive # None
    /\ loaded' = Called("load_metadata",
                        IF Val(archive).kind = "image"
                        THEN Image_load_metadata(Val(archive).zip)
                        ELSE ImageLayer_load_metadata(Val(archive).zip))
    /\ UNCHANGED archive
    /\ UNCHANGED <<taskvars, memory, file, image, directory, store, pulls,
                   calls, capture>>

\* image.without_content()
WithoutContent ==
    /\ loaded' = Called("without_content", Returned(without_content(image)))
    /\ UNCHANGED archive
    /\ UNCHANGED <<taskvars, memory, file, image, directory, store, pulls,
                   calls, capture>>

PackNext == Pack \/ PackLayer \/ Unpack \/ LoadMetadata \/ WithoutContent

PackSpec == PackInit /\ [][PackNext]_vars

\* the last call was op, on an archive of that kind
Did(op, kind) ==
    /\ loaded # None
    /\ Val(loaded).op = op
    /\ archive # None
    /\ Val(archive).kind = kind

KeyList(dict) == [i \in 1..Len(dict) |-> dict[i][1]]

\* C15: for every Image with N >= 0 layers and either compression, pack and
\* then unpack yields an Image with the same slug and version and the same N
\* layers in order, each with identical checksum, content and deleted_files,
\* and for N >= 1 get_file_list() of the result is the key list of the last
\* layer's checksum.
C15_ImageRoundTrip ==
    Did("unpack", "image") =>
        /\ Val(loaded).raised = None
        /\ Val(loaded).value.slug = image.slug
        /\ Val(loaded).value.version = image.version
        /\ Len(Val(loaded).value.layers) = Len(image.layers)
        /\ \A i \in 1..Len(image.layers) :
              /\ Val(loaded).value.layers[i].checksum =
                    image.layers[i].checksum
              /\ Val(loaded).value.layers[i].content = image.layers[i].content
              /\ Val(loaded).value.layers[i].deleted_files =
                    image.layers[i].deleted_files
        /\ Len(image.layers) >= 1 =>
              get_file_list(Val(loaded).value) =
                 KeyList(image.layers[Len(image.layers)].checksum)

C15_Witness ==
    /\ Did("unpack", "image")
    /\ Val(archive).zip.entries[1].compressed.method = ZIP_DEFLATED
    /\ Len(image.layers) = 2
    /\ image.layers[1] # image.layers[2]
    /\ image.layers[1].content # <<>>
    /\ Len(image.layers[2].checksum) = 2
    /\ Val(loaded).value.layers = image.layers
    /\ get_file_list(Val(loaded).value) = <<"c", "a">>

\* C16: for every valid ImageLayer and either compression, pack and then
\* unpack yields a layer with identical checksum, content and deleted_files,
\* and so with the same slug.
C16_LayerRoundTrip ==
    Did("unpack", "layer") =>
        /\ Val(loaded).raised = None
        /\ Val(loaded).value.checksum =
              image.layers[Val(archive).of].checksum
        /\ Val(loaded).value.content = image.layers[Val(archive).of].content
        /\ Val(loaded).value.deleted_files =
              image.layers[Val(archive).of].deleted_files
        /\ ImageLayer_slug(Val(loaded).value) =
              ImageLayer_slug(image.layers[Val(archive).of])

C16_Witness ==
    /\ Did("unpack", "layer")
    /\ Val(archive).zip.entries[1].compressed.method = ZIP_STORED
    /\ Val(loaded).raised = None
    /\ Val(loaded).value = image.layers[Val(archive).of]
    /\ Len(Val(loaded).value.content) = 2
    /\ Len(Val(loaded).value.checksum) = 2
    /\ Val(loaded).value.deleted_files # <<>>

\* C17: on an archive Image.pack wrote, Image.load_metadata succeeds and
\* returns what unpack(path).without_content() returns, and
\* ImageLayer.load_metadata on a packed layer returns that layer with empty
\* content.
C17_LoadMetadata ==
    /\ Did("load_metadata", "image") =>
          /\ Val(loaded).raised = None
          /\ Val(loaded).value =
                without_content(Image_unpack(Val(archive).zip).value)
    /\ Did("load_metadata", "layer") =>
          /\ Val(loaded).raised = None
          /\ Val(loaded).value =
                [image.layers[Val(archive).of] EXCEPT !.content = <<>>]

\* C18: without_content() returns an Image with the same slug, version,
\* number and order of layers and per-layer checksum and deleted_files, in
\* which every layer's content is empty, and leaves the Image it was called
\* on, and its layers' content, unchanged.
C18_WithoutContent ==
    /\ [](loaded # None /\ Val(loaded).op = "without_content" =>
             /\ Val(loaded).raised = None
             /\ Val(loaded).value.slug = image.slug
             /\ Val(loaded).value.version = image.version
             /\ Len(Val(loaded).value.layers) = Len(image.layers)
             /\ \A i \in 1..Len(image.layers) :
                   /\ Val(loaded).value.layers[i].checksum =
                         image.layers[i].checksum
                   /\ Val(loaded).value.layers[i].deleted_files =
                         image.layers[i].deleted_files
                   /\ Val(loaded).value.layers[i].content = <<>>)
    /\ [][WithoutContent => image' = image]_vars

C18_Witness ==
    /\ loaded # None
    /\ Val(loaded).op = "without_content"
    /\ Len(image.layers) = 2
    /\ image.layers[1].content # <<>>
    /\ image.layers[2].content # <<>>
    /\ image.layers[1].checksum # image.layers[2].checksum
    /\ Val(loaded).value.layers[1].content = <<>>
    /\ Val(loaded).value.layers[2].content = <<>>

\* ========================================================================
\* Image.pull
\* ========================================================================
\* number of pull calls in one behaviour
MaxPulls == 2

\* zipfile.ZipFile(path, "r") on the files of the image directory
ZipFile(files, name) ==
    IF files[name] = None THEN Raised("FileNotFoundError")
    ELSE IF "entries" \notin DOMAIN Val(files[name])
    THEN Raised("BadZipFile")
    ELSE Returned(Val(files[name]))

\* cls.unpack(image_path)
unpack_path(files, name) ==
    IF ZipFile(files, name).raised # None THEN ZipFile(files, name)
    ELSE Image_unpack(ZipFile(files, name).value)

\* the URLs pulled, the trailing path segment of each (url.name), and what
\* the server holds there: a packed Image, a file that is no archive, an
\* archive without info.bson, an archive whose layer has an absolute path
URLs ==
    {"http://h/a.zip", "http://g/a.zip", "http://h/b.zip", "http://h/c.zip"}

url_name(url) ==
    CASE url = "http://h/a.zip" -> "a.zip"
      [] url = "http://g/a.zip" -> "a.zip"
      [] url = "http://h/b.zip" -> "b.zip"
      [] url = "http://h/c.zip" -> "c.zip"

Served(url) ==
    CASE url = "http://h/a.zip" ->
            Image_pack([Image("i", "1") EXCEPT !.layers =
                           <<ImageLayer(<< <<"a", "h1">> >>,
                                        << <<"a", "1">> >>, <<>>)>>], TRUE)
      [] url = "http://g/a.zip" -> [bytes |-> "garbage"]
      [] url = "http://h/b.zip" -> [entries |-> <<>>]
      [] url = "http://h/c.zip" ->
            Image_pack([Image("i", "1") EXCEPT !.layers =
                           <<ImageLayer(<<>>, << <<"/x", "1">> >>, <<>>)>>],
                       FALSE)

PullInit ==
    /\ TaskInit
    /\ memory = Idle.memory
    /\ file = Idle.file
    /\ image = Idle.image
    /\ directory = Idle.directory
    /\ archive = Idle.archive
    /\ loaded = Idle.loaded
    /\ calls = Idle.calls
    /\ capture = Idle.capture
    /\ store = [name \in {url_name(url) : url \in URLs} |-> None]
    /\ pulls = <<>>

\* Image.pull(url) up to `await utils.download_file(...)`
PullCall ==
    /\ Len(pulls) < MaxPulls
    /\ \E url \in URLs :
          pulls' = Append(pulls, [url |-> url, pc |-> "download",
                                  returncode |-> 0, outcome |-> None])
    /\ UNCHANGED store
    /\ UNCHANGED <<taskvars, memory, file, image, directory, archive, loaded,
                   calls, capture>>

\* aria2c ends: with a non-zero code, or with 0 and the file at the path
\* (a file already there is overwritten, or kept when aria2c renames the
\* new one)
DownloadEnd(c) ==
    /\ pulls[c].pc = "download"
    /\ \/ /\ pulls' = [pulls EXCEPT ![c].pc = "resume", ![c].returncode = 1]
          /\ UNCHANGED store
       \/ /\ pulls' = [pulls EXCEPT ![c].pc = "resume"]
          /\ \/ store' = [store EXCEPT ![url_name(pulls[c].url)] =
                             Some(Served(pulls[c].url))]
             \/ /\ store[url_name(pulls[c].url)] # None
                /\ UNCHANGED store
    /\ UNCHANGED <<taskvars, memory, file, image, directory, archive, loaded,
                   calls, capture>>

\* the exceptions the handler of pull catches
pull_except_ValueError == "ValueError"

pull_except == "Exception"

\* the rest of pull, run by the event loop without a break: download_file
\* raises on a non-zero code; else unpack, and on an exception the handler
\* catches the file is unlinked and the wrapped error raised
PullResume(c) ==
    /\ pulls[c].pc = "resume"
    /\ LET name == url_name(pulls[c].url)
           unpacked == unpack_path(store, name)
       IN IF pulls[c].returncode # 0
          THEN /\ pulls' = [pulls EXCEPT ![c].pc = "done",
                               ![c].outcome = Some(Raised("RuntimeError"))]
               /\ UNCHANGED store
          ELSE IF unpacked.raised = None
          THEN /\ pulls' = [pulls EXCEPT ![c].pc = "done",
                               ![c].outcome = Some(unpacked)]
               /\ UNCHANGED store
          ELSE IF Catches(pull_except, Val(unpacked.raised))
          THEN /\ pulls' = [pulls EXCEPT ![c].pc = "done",
                               ![c].outcome = Some(Raised("ValueError"))]
               /\ store' = [store EXCEPT ![name] = None]
          ELSE /\ pulls' = [pulls EXCEPT ![c].pc = "done",
                               ![c].outcome = Some(unpacked)]
               /\ UNCHANGED store
    /\ UNCHANGED <<taskvars, memory, file, image, directory, archive, loaded,
                   calls, capture>>

PullNext ==
    \/ PullCall
    \/ \E c \in 1..Len(pulls) : DownloadEnd(c)
    \/ \E c \in 1..Len(pulls) : PullResume(c)

PullSpec == PullInit /\ [][PullNext]_vars

\* C19: pull returns a fully unpacked Image or raises.  When the download
\* fails no unpack is attempted and the download error is raised; when the
\* download succeeds and unpack fails, the archive file no longer exists when
\* the error reaches the caller, the error is the wrapped unpack error and
\* no Image is returned; when unpack succeeds the archive file is kept.
C19_PullCleansUp ==
    [][\A c \in 1..Len(pulls) :
          PullResume(c) =>
             LET name == url_name(pulls[c].url)
                 outcome == Val(pulls'[c].outcome)
             IN /\ pulls[c].returncode # 0 =>
                      /\ outcome = Raised("RuntimeError")
                      /\ store' = store
                /\ (pulls[c].returncode = 0 /\
                    unpack_path(store, name).raised # None) =>
                      /\ store'[name] = None
                      /\ outcome = Raised("ValueError")
                /\ (pulls[c].returncode = 0 /\
                    unpack_path(store, name).raised = None) =>
                      /\ store' = store
                      /\ store'[name] # None
                      /\ outcome = Image_unpack(Val(store[name]))
                      /\ outcome.raised = None
                      /\ \A i \in 1..Len(outcome.value.layers) :
                            outcome.value.layers[i].content # <<>>]_vars

\* one pull returned the Image and left its archive, another failed in
\* unpack and its archive is gone
C19_Witness ==
    \E c, d \in 1..Len(pulls) :
        /\ pulls[c].pc = "done" /\ pulls[d].pc = "done"
        /\ Val(pulls[c].outcome).raised = None
        /\ store[url_name(pulls[c].url)] # None
        /\ pulls[d].returncode = 0
        /\ Val(pulls[d].outcome) = Raised("ValueError")
        /\ store[url_name(pulls[d].url)] = None

\* ========================================================================
\* TaskManager.add_task called on concurrent handler threads
\* ========================================================================
\* run_task is a plain function, so the API runs each request on a thread of
\* its pool, and a thread can be preempted between any two statements of
\* add_task.  A Task that was added before can be added again once its call
\* is over, as under sequential use.
MaxCalls == 3

RaceInit ==
    /\ TaskInit
    /\ memory = Idle.memory
    /\ file = Idle.file
    /\ image = Idle.image
    /\ directory = Idle.directory
    /\ archive = Idle.archive
    /\ loaded = Idle.loaded
    /\ store = Idle.store
    /\ pulls = Idle.pulls
    /\ capture = Idle.capture
    /\ calls = <<>>

\* add_task(task) up to task.run()
CallRun(t) ==
    /\ Len(calls) < MaxCalls
    /\ \A c \in 1..Len(calls) :
          calls[c].task = t => calls[c].pc \in {"returned", "raised"}
    /\ run(t)
    /\ calls' = Append(calls, [task |-> t, pc |-> "get_task",
                               same_slug_task |-> None, raised |-> None])
    /\ UNCHANGED <<stops, tasks>>
    /\ UNCHANGED <<memory, file, image, directory, archive, loaded, store,
                   pulls, capture>>

\* variant: the Task is registered before run() is tried
CallRunRaises_Registered(t) ==
    /\ Len(calls) < MaxCalls
    /\ \A c \in 1..Len(calls) :
          calls[c].task = t => calls[c].pc \in {"returned", "raised"}
    /\ tasks' = Append(tasks, t)
    /\ calls' = Append(calls, [task |-> t, pc |-> "raised",
                               same_slug_task |-> None,
                               raised |-> Some("OSError")])
    /\ UNCHANGED <<process, logging, procs, stops>>
    /\ UNCHANGED <<memory, file, image, directory, archive, loaded, store,
                   pulls, capture>>

\* add_task(task) when task.run() raises.  Popen raises OSError when the
\* process cannot be spawned, before _process is assigned; Thread.start()
\* raises RuntimeError when no thread can be started, in the first
\* start_log, after the process was spawned and the flag of that Logger was
\* set, and then no monitor is started.  add_task passes the exception on.
CallRunRaises(t) ==
    /\ Len(calls) < MaxCalls
    /\ \A c \in 1..Len(calls) :
          calls[c].task = t => calls[c].pc \in {"returned", "raised"}
    /\ \E exception \in {"OSError", "RuntimeError"} :
          /\ calls' = Append(calls, [task |-> t, pc |-> "raised",
                                     same_slug_task |-> None,
                                     raised |-> Some(exception)])
          /\ IF exception = "OSError"
             THEN UNCHANGED <<process, logging, procs>>
             ELSE /\ procs' = Append(procs,
                                     [NewProc(t) EXCEPT !.mon = "unstarted"])
                  /\ process' = [process EXCEPT ![t] = Some(Len(procs) + 1)]
                  /\ logging' = [logging EXCEPT ![t][1] = TRUE]
    /\ UNCHANGED <<stops, tasks>>
    /\ UNCHANGED <<memory, file, image, directory, archive, loaded, store,
                   pulls, capture>>

\* same_slug_task = self.get_task(task.slug)
CallGetTask(c) ==
    /\ calls[c].pc = "get_task"
    /\ calls' = [calls EXCEPT
                    ![c].same_slug_task = get_task(slug[calls[c].task]),
                    ![c].pc = IF get_task(slug[calls[c].task]) # None
                              THEN "remove" ELSE "append"]
    /\ UNCHANGED taskvars
    /\ UNCHANGED <<memory, file, image, directory, archive, loaded, store,
                   pulls, capture>>

\* self.tasks.remove(same_slug_task): ValueError when it is not in the list
CallRemove(c) ==
    /\ calls[c].pc = "remove"
    /\ IF \E i \in 1..Len(tasks) : tasks[i] = Val(calls[c].same_slug_task)
       THEN /\ tasks' = remove(tasks, Val(calls[c].same_slug_task))
            /\ calls' = [calls EXCEPT ![c].pc = "append"]
       ELSE /\ calls' = [calls EXCEPT ![c].pc = "raised",
                            ![c].raised = Some("ValueError")]
            /\ UNCHANGED tasks
    /\ UNCHANGED <<process, logging, procs, stops>>
    /\ UNCHANGED <<memory, file, image, directory, archive, loaded, store,
                   pulls, capture>>

\* self.tasks.append(task)
CallAppend(c) ==
    /\ calls[c].pc = "append"
    /\ tasks' = Append(tasks, calls[c].task)
    /\ calls' = [calls EXCEPT ![c].pc = "returned"]
    /\ UNCHANGED <<process, logging, procs, stops>>
    /\ UNCHANGED <<memory, file, image, directory, archive, loaded, store,
                   pulls, capture>>

RaceNext ==
    \/ \E t \in Tasks : CallRun(t)
    \/ \E t \in Tasks : CallRunRaises(t)
    \/ \E c \in 1..Len(calls) : CallGetTask(c)
    \/ \E c \in 1..Len(calls) : CallRemove(c)
    \/ \E c \in 1..Len(calls) : CallAppend(c)

RaceSpec == RaceInit /\ [][RaceNext]_vars

\* C20: under every interleaving of concurrent add_task calls the registry
\* never holds two entries with the same slug, and no add_task call fails
\* because another call changed the registry between its lookup and its
\* removal of the old entry.
C20_ConcurrentAddTask ==
    /\ UniqueBySlug(tasks)
    /\ \A c \in 1..Len(calls) : calls[c].raised # Some("ValueError")

\* ========================================================================
\* The capture workers of a Logger
\* ========================================================================
\* run() starts one worker thread per stream for each Logger; the workers of
\* a Logger share its flag and, for a MemoryLogger, its list.  Threads are
\* preempted between statements, so each step below is one access to shared
\* state: the flag, a pipe, the list.
MaxLines == 2

Streams == {"stdout", "stderr"}

CaptureInit ==
    /\ TaskInit
    /\ memory = Idle.memory
    /\ file = Idle.file
    /\ image = Idle.image
    /\ directory = Idle.directory
    /\ archive = Idle.archive
    /\ loaded = Idle.loaded
    /\ store = Idle.store
    /\ pulls = Idle.pulls
    /\ calls = Idle.calls
    /\ \E logger_name \in {"console", "memory", "file"},
          n \in 1..MaxMaximumLogs, inherited \in BOOLEAN :
          /\ logger_name # "memory" => n = 1
          /\ capture = Capture(logger_name, n, inherited)

\* Task.run(): the process is spawned, start_log(stdout) and
\* start_log(stderr) set the flag and start a worker each, and the monitor
\* thread is started
CaptureRun ==
    /\ capture.process = "ready"
    /\ capture' = [capture EXCEPT
                      !.process = "running",
                      !.logging = TRUE,
                      !.worker = [stream \in Streams |->
                                     [@[stream] EXCEPT !.pc = "while"]],
                      !.sidecar = "wait"]
    /\ UNCHANGED <<taskvars, memory, file, image, directory, archive, loaded,
                   store, pulls, calls>>

\* the process writes a line to one of its streams: text, or a blank line
ProcessWrite(stream) ==
    /\ capture.process = "running"
    /\ capture.written < MaxLines
    /\ \E line \in {<<"m", NL>>, <<NL>>} :
          capture' = [capture EXCEPT !.pipe[stream] = Append(@, line),
                                     !.written = @ + 1]
    /\ UNCHANGED <<taskvars, memory, file, image, directory, archive, loaded,
                   store, pulls, calls>>

\* the process exits by itself
ProcessExits ==
    /\ capture.process = "running"
    /\ capture' = [capture EXCEPT !.process = "exited"]
    /\ UNCHANGED <<taskvars, memory, file, image, directory, archive, loaded,
                   store, pulls, calls>>

\* stop_log()
stop_log(c) == [c EXCEPT !.logging = FALSE, !.stopped = TRUE]

\* Task._stop() of a caller of stop(): the signal is sent and the Logger is
\* told to stop, whatever the process does with the signal
CaptureStop ==
    /\ capture.process = "running"
    /\ capture' = stop_log(capture)
    /\ UNCHANGED <<taskvars, memory, file, image, directory, archive, loaded,
                   store, pulls, calls>>

\* variant: the monitor returns without stopping the Logger
CaptureSidecar_NoStopLog ==
    /\ capture.sidecar = "wait"
    /\ capture.process = "exited"
    /\ capture' = [capture EXCEPT !.sidecar = "returned"]
    /\ UNCHANGED <<taskvars, memory, file, image, directory, archive, loaded,
                   store, pulls, calls>>

\* the monitor: wait() without timeout returns when the process has exited,
\* and the finally clause stops the Logger
CaptureSidecar ==
    /\ capture.sidecar = "wait"
    /\ capture.process = "exited"
    /\ capture' = [stop_log(capture) EXCEPT !.sidecar = "returned"]
    /\ UNCHANGED <<taskvars, memory, file, image, directory, archive, loaded,
                   store, pulls, calls>>

\* variant: while stream.readable()
WorkerWhile_NoFlag(stream) ==
    /\ capture.worker[stream].pc = "while"
    /\ capture' = [capture EXCEPT !.worker[stream].pc = "readline"]
    /\ UNCHANGED <<taskvars, memory, file, image, directory, archive, loaded,
                   store, pulls, calls>>

\* while stream.readable() and self.logging
WorkerWhile(stream) ==
    /\ capture.worker[stream].pc = "while"
    /\ capture' = [capture EXCEPT !.worker[stream].pc =
                      IF capture.logging THEN "readline" ELSE "returned"]
    /\ UNCHANGED <<taskvars, memory, file, image, directory, archive, loaded,
                   store, pulls, calls>>

\* line = stream.readline(), which blocks until there is a line or the end of
\* the stream; the read end of a pipe is at its end once every holder of the
\* write end is gone: the process, and the descendants that inherited it.
\* The workers of ConsoleLogger and MemoryLogger strip() the line, that of
\* FileLogger does not.  An empty result sends the worker to sleep and back
\* to the loop condition, any other is passed to log.
WorkerReadline(stream) ==
    /\ capture.worker[stream].pc = "readline"
    /\ \/ capture.pipe[stream] # <<>>
       \/ capture.process = "exited" /\ ~capture.inherited
    /\ LET text == IF capture.pipe[stream] = <<>> THEN <<>>
                   ELSE Head(capture.pipe[stream])
           line == IF capture.logger_name = "file" THEN text
                   ELSE SelectSeq(text, LAMBDA c : c # NL)
       IN capture' = [capture EXCEPT
              !.pipe[stream] = IF @ = <<>> THEN @ ELSE Tail(@),
              !.worker[stream] =
                  IF line = <<>> THEN [@ EXCEPT !.pc = "while"]
                  ELSE [@ EXCEPT !.pc = "log", !.line = line,
                                 !.after = IF capture.stopped THEN @ + 1
                                           ELSE @]]
    /\ UNCHANGED <<taskvars, memory, file, image, directory, archive, loaded,
                   store, pulls, calls>>

\* self.log(line): ConsoleLogger and FileLogger emit the formatted line;
\* MemoryLogger compares len(self.logs) with maximum_logs
WorkerLog(stream) ==
    /\ capture.worker[stream].pc = "log"
    /\ capture' =
          IF capture.logger_name # "memory"
          THEN [capture EXCEPT
                   !.logs = Append(@, Formatted("",
                                       capture.worker[stream].line)),
                   !.worker[stream].pc = "while"]
          ELSE [capture EXCEPT !.worker[stream].pc =
                   IF Len(capture.logs) >= capture.maximum_logs
                   THEN "pop" ELSE "append"]
    /\ UNCHANGED <<taskvars, memory, file, image, directory, archive, loaded,
                   store, pulls, calls>>

\* self.logs.pop(0): IndexError ends the thread when the list is empty
WorkerPop(stream) ==
    /\ capture.worker[stream].pc = "pop"
    /\ capture' =
          IF capture.logs = <<>>
          THEN [capture EXCEPT !.worker[stream].pc = "raised",
                               !.worker[stream].raised = Some("IndexError")]
          ELSE [capture EXCEPT !.logs = Tail(@),
                               !.worker[stream].pc = "append"]
    /\ UNCHANGED <<taskvars, memory, file, image, directory, archive, loaded,
                   store, pulls, calls>>

\* self.logs.append(message)
WorkerAppend(stream) ==
    /\ capture.worker[stream].pc = "append"
    /\ capture' = [capture EXCEPT
                      !.logs = Append(@, capture.worker[stream].line),
                      !.worker[stream].pc = "while"]
    /\ UNCHANGED <<taskvars, memory, file, image, directory, archive, loaded,
                   store, pulls, calls>>

CaptureNext ==
    \/ CaptureRun
    \/ \E stream \in Streams : ProcessWrite(stream)
    \/ ProcessExits
    \/ CaptureStop
    \/ CaptureSidecar
    \/ \E stream \in Streams : WorkerWhile(stream)
    \/ \E stream \in Streams : WorkerReadline(stream)
    \/ \E stream \in Streams : WorkerLog(stream)
    \/ \E stream \in Streams : WorkerPop(stream)
    \/ \E stream \in Streams : WorkerAppend(stream)

CaptureSpec == CaptureInit /\ [][CaptureNext]_vars

\* C21: with the stdout worker and the stderr worker of a MemoryLogger
\* logging concurrently, from an empty buffer and with maximum_logs >= 1, the
\* buffer never holds more than maximum_logs entries.
C21_BufferBounded ==
    capture.logger_name = "memory" => Len(capture.logs) <= capture.maximum_logs

\* the monitor thread and the worker threads are scheduled again and again;
\* nothing makes the process write or exit
FairCaptureSpec ==
    /\ CaptureSpec
    /\ WF_vars(CaptureSidecar)
    /\ \A stream \in Streams :
          WF_vars(\/ WorkerWhile(stream)
                  \/ WorkerReadline(stream)
                  \/ WorkerLog(stream)
                  \/ WorkerPop(stream)
                  \/ WorkerAppend(stream))

\* the monitor has stopped the Logger
MonitorStopped == capture.sidecar = "returned" /\ ~capture.logging

\* every capture worker has left its loop, or ended with an exception
WorkersEnded ==
    \A stream \in Streams : capture.worker[stream].pc \in {"returned", "raised"}

\* C22: whenever the process exits by itself the monitor eventually stops the
\* Logger, and every capture worker of the Task eventually terminates.
C22_WorkersEnd ==
    /\ (capture.process = "exited") ~> MonitorStopped
    /\ (capture.process = "exited") ~> WorkersEnded

\* C22, amended: whenever the process exits by itself the monitor eventually
\* stops the Logger; every capture worker eventually terminates when no
\* descendant of the process keeps the write ends of the pipes open, and a
\* worker that waits in readline() on a pipe a descendant keeps open, with
\* nothing in it, stays there.
C22_WorkersEndAtEndOfStream ==
    /\ (capture.process = "exited") ~> MonitorStopped
    /\ (capture.process = "exited" /\ ~capture.inherited) ~> WorkersEnded
    /\ [][\A stream \in Streams :
            /\ capture.process = "exited"
            /\ capture.inherited
            /\ capture.worker[stream].pc = "readline"
            /\ capture.pipe[stream] = <<>>
            => capture.worker[stream]' = capture.worker[stream]]_vars

C22_Witness ==
    /\ capture.process = "exited"
    /\ ~capture.inherited
    /\ MonitorStopped
    /\ WorkersEnded
    /\ capture.logs # <<>>

\* C23: once stop_log() has returned (start_log is not called again) each
\* capture worker of the Logger, whatever its kind, passes at most one
\* further line to log, and its next test of the flag ends its loop; the
\* flag is the one flag of the Logger, so this holds for the stdout worker
\* and the stderr worker alike.
C23_AtMostOneLine ==
    /\ [](capture.stopped => ~capture.logging)
    /\ [](\A stream \in Streams : capture.worker[stream].after <= 1)
    /\ [][\A stream \in Streams :
            /\ capture.stopped
            /\ capture.worker[stream].pc = "while"
            /\ capture.worker[stream]' # capture.worker[stream]
            => capture.worker[stream].pc' = "returned"]_vars

C23_Witness ==
    /\ capture.stopped
    /\ capture.process = "running"
    /\ capture.worker["stdout"].after = 1
    /\ \A stream \in Streams : capture.worker[stream].pc = "returned"
    /\ capture.pipe["stdout"] # <<>>

\* C24: in every state, those inside an add_task call included, no Task of
\* the registry has status ready; the step of add_task that runs the Task
\* leaves the registry as it is, and a call whose run() raised never changes
\* the registry: it takes no further step.
C24_RegisteredWereRun ==
    /\ [](\A i \in 1..Len(tasks) : status(tasks[i]) # "ready")
    /\ [][Len(calls') > Len(calls) => tasks' = tasks]_vars
    /\ [][\A c \in 1..Len(calls) :
            calls[c].pc = "raised" => calls'[c] = calls[c]]_vars

C24_Witness ==
    /\ \E c \in 1..Len(calls) :
          /\ calls[c].raised = Some("OSError")
          /\ status(calls[c].task) = "ready"
    /\ \E c \in 1..Len(calls) : calls[c].pc = "append"
    /\ tasks # <<>>

====
